---------------------------- MODULE Spec2Model ----------------------------
(***************************************************************************)
(* Model of be/src/main.rs: the live bus-position client.                  *)
(*                                                                         *)
(*   - decode_bus_data (base64, then gzip, then UTF-8) and the JSON/raw    *)
(*     classification done by the onFts-client callback;                   *)
(*   - prasarana_websocket: page fetch, session extraction, socket         *)
(*     connect, the connect / onFts-client / error handlers that the       *)
(*     socket's polling task runs, and the keep-alive loop of the main     *)
(*     task.                                                               *)
(*                                                                         *)
(* Strings that are decoded are sequences of byte / ASCII codes; session   *)
(* fields are TLA+ strings.                                                *)
(***************************************************************************)
EXTENDS Integers, Sequences, FiniteSets, TLC

(***************************************************************************)
(* Bounds of the model.                                                    *)
(***************************************************************************)
MaxTextLen == 3     \* longest plaintext the feed sends
MaxTicks   == 2     \* keep-alive timer expirations per run
MaxInbound == 2     \* onFts-client events per run
MaxErrors  == 1     \* error events per run
MaxStmts   == 3     \* `var x = '...'` assignments in a fetched page

(***************************************************************************)
(* Sequence helpers.                                                       *)
(***************************************************************************)
RECURSIVE SeqsUpTo(_, _)
SeqsUpTo(S, n) ==
    IF n = 0 THEN {<<>>}
    ELSE LET shorter == SeqsUpTo(S, n - 1)
         IN  shorter \cup {Append(s, x) : s \in {t \in shorter : Len(t) = n - 1}, x \in S}

RECURSIVE SumSeq(_)
SumSeq(s) == IF s = <<>> THEN 0 ELSE Head(s) + SumSeq(Tail(s))

(***************************************************************************)
(* base64::engine::general_purpose::STANDARD  (main.rs:31-33).             *)
(* A string is a sequence of ASCII codes.  STANDARD uses the RFC 4648      *)
(* alphabet, requires canonical '=' padding and rejects non-zero trailing  *)
(* bits.                                                                   *)
(***************************************************************************)
B64Sym(v) ==    \* the ASCII code of alphabet symbol v, 0 <= v <= 63
    IF v < 26 THEN 65 + v
    ELSE IF v < 52 THEN 97 + (v - 26)
    ELSE IF v < 62 THEN 48 + (v - 52)
    ELSE IF v = 62 THEN 43 ELSE 47

B64Val(c) ==    \* the value of ASCII code c, or -1 when c is not in the alphabet
    IF c >= 65 /\ c <= 90 THEN c - 65
    ELSE IF c >= 97 /\ c <= 122 THEN c - 97 + 26
    ELSE IF c >= 48 /\ c <= 57 THEN c - 48 + 52
    ELSE IF c = 43 THEN 62
    ELSE IF c = 47 THEN 63
    ELSE -1

IsPad(c) == c = 61

RECURSIVE Base64Encode(_)
Base64Encode(b) ==
    IF Len(b) = 0 THEN <<>>
    ELSE IF Len(b) = 1 THEN
        <<B64Sym(b[1] \div 4), B64Sym((b[1] % 4) * 16), 61, 61>>
    ELSE IF Len(b) = 2 THEN
        <<B64Sym(b[1] \div 4),
          B64Sym((b[1] % 4) * 16 + (b[2] \div 16)),
          B64Sym((b[2] % 16) * 4), 61>>
    ELSE
        <<B64Sym(b[1] \div 4),
          B64Sym((b[1] % 4) * 16 + (b[2] \div 16)),
          B64Sym((b[2] % 16) * 4 + (b[3] \div 64)),
          B64Sym(b[3] % 64)>> \o Base64Encode(SubSeq(b, 4, Len(b)))

\* One group of four symbols; last says whether padding is allowed in it.
B64Group(g, last) ==
    LET v1 == B64Val(g[1])
        v2 == B64Val(g[2])
        v3 == B64Val(g[3])
        v4 == B64Val(g[4])
    IN  IF v1 < 0 \/ v2 < 0 THEN [ok |-> FALSE, bytes |-> <<>>]
        ELSE IF IsPad(g[3]) /\ IsPad(g[4]) THEN
            IF last /\ v2 % 16 = 0
            THEN [ok |-> TRUE, bytes |-> <<v1 * 4 + (v2 \div 16)>>]
            ELSE [ok |-> FALSE, bytes |-> <<>>]
        ELSE IF v3 < 0 THEN [ok |-> FALSE, bytes |-> <<>>]
        ELSE IF IsPad(g[4]) THEN
            IF last /\ v3 % 4 = 0
            THEN [ok |-> TRUE,
                  bytes |-> <<v1 * 4 + (v2 \div 16), (v2 % 16) * 16 + (v3 \div 4)>>]
            ELSE [ok |-> FALSE, bytes |-> <<>>]
        ELSE IF v4 < 0 THEN [ok |-> FALSE, bytes |-> <<>>]
        ELSE [ok |-> TRUE,
              bytes |-> <<v1 * 4 + (v2 \div 16),
                          (v2 % 16) * 16 + (v3 \div 4),
                          (v3 % 4) * 64 + v4>>]

RECURSIVE Base64Decode(_)
Base64Decode(s) ==
    IF Len(s) = 0 THEN [ok |-> TRUE, bytes |-> <<>>]
    ELSE IF Len(s) < 4 THEN [ok |-> FALSE, bytes |-> <<>>]
    ELSE LET g    == B64Group(SubSeq(s, 1, 4), Len(s) = 4)
             rest == Base64Decode(SubSeq(s, 5, Len(s)))
         IN  IF g.ok /\ rest.ok
             THEN [ok |-> TRUE, bytes |-> g.bytes \o rest.bytes]
             ELSE [ok |-> FALSE, bytes |-> <<>>]

(***************************************************************************)
(* flate2::read::GzDecoder + read_to_string  (main.rs:36-38).              *)
(* A gzip member is modelled by its framing: the magic bytes ID1 ID2, the  *)
(* compression method, one stored block (length, data) and a trailing      *)
(* check value over the data.  read_to_string also rejects data that is    *)
(* not UTF-8; on the bytes of this model (ASCII and 255) that is the test  *)
(* b < 128.                                                                *)
(***************************************************************************)
GzCheck(data) == SumSeq(data) % 256

Gzip(data) == <<31, 139, 8, Len(data)>> \o data \o <<GzCheck(data)>>

Utf8Valid(data) == \A i \in 1..Len(data) : data[i] < 128

Gunzip(b) ==
    IF Len(b) < 5 THEN [ok |-> FALSE, text |-> <<>>]
    ELSE LET data == SubSeq(b, 5, Len(b) - 1)
         IN  IF /\ b[1] = 31
                /\ b[2] = 139
                /\ b[3] = 8
                /\ b[4] = Len(data)
                /\ b[Len(b)] = GzCheck(data)
                /\ Utf8Valid(data)
             THEN [ok |-> TRUE, text |-> data]
             ELSE [ok |-> FALSE, text |-> <<>>]

(***************************************************************************)
(* decode_bus_data  (main.rs:29-41): Option<String>.  Both `.ok()?` exits  *)
(* return the same None.                                                   *)
(***************************************************************************)
None == [some |-> FALSE, text |-> <<>>]
Some(t) == [some |-> TRUE, text |-> t]

\* Variant: a failed decompression yields the empty string instead of None.
decode_bus_data_IgnoreGzipErr(encoded) ==
    LET decoded == Base64Decode(encoded)
    IN  IF ~decoded.ok THEN None
        ELSE LET decompressed == Gunzip(decoded.bytes)
             IN  IF ~decompressed.ok THEN Some(<<>>)
                 ELSE Some(decompressed.text)

\* Variant: the decompression step is left out.
decode_bus_data_NoGunzip(encoded) ==
    LET decoded == Base64Decode(encoded)
    IN  IF ~decoded.ok THEN None ELSE Some(decoded.bytes)

decode_bus_data(encoded) ==
    LET decoded == Base64Decode(encoded)
    IN  IF ~decoded.ok THEN None
        ELSE LET decompressed == Gunzip(decoded.bytes)
             IN  IF ~decompressed.ok THEN None
                 ELSE Some(decompressed.text)


(***************************************************************************)
(* serde_json::from_str::<Value>  (main.rs:107).                           *)
(* The recogniser is exact on texts over digits, '[', ']', white space     *)
(* and bytes that start no JSON token (the alphabet TextChars below): a    *)
(* value is a number or an array of at most one value, with optional       *)
(* white space around every token.                                         *)
(***************************************************************************)
IsWs(c) == c \in {32, 9, 10, 13}

IsDigit(c) == c >= 48 /\ c <= 57

RECURSIVE StripLeft(_)
StripLeft(t) ==
    IF t # <<>> /\ IsWs(Head(t)) THEN StripLeft(Tail(t)) ELSE t

RECURSIVE StripRight(_)
StripRight(t) ==
    IF t # <<>> /\ IsWs(t[Len(t)]) THEN StripRight(SubSeq(t, 1, Len(t) - 1)) ELSE t

Strip(t) == StripRight(StripLeft(t))

IsNumber(t) ==
    /\ t # <<>>
    /\ \A i \in 1..Len(t) : IsDigit(t[i])
    /\ (Len(t) > 1 => t[1] # 48)

RECURSIVE NumVal(_)
NumVal(t) ==
    IF t = <<>> THEN 0
    ELSE NumVal(SubSeq(t, 1, Len(t) - 1)) * 10 + (t[Len(t)] - 48)

\* serde_json::Value, restricted to numbers and arrays.
JNone   == [t |-> "none", n |-> 0, items |-> <<>>]
JNum(n) == [t |-> "num", n |-> n, items |-> <<>>]
JArr(s) == [t |-> "arr", n |-> 0, items |-> s]

RECURSIVE ParseJson(_)
ParseJson(text) ==
    LET s == Strip(text)
    IN  IF IsNumber(s) THEN [ok |-> TRUE, value |-> JNum(NumVal(s))]
        ELSE IF Len(s) >= 2 /\ s[1] = 91 /\ s[Len(s)] = 93 THEN
            LET inner == Strip(SubSeq(s, 2, Len(s) - 1))
            IN  IF inner = <<>> THEN [ok |-> TRUE, value |-> JArr(<<>>)]
                ELSE LET v == ParseJson(inner)
                     IN  IF v.ok THEN [ok |-> TRUE, value |-> JArr(<<v.value>>)]
                         ELSE [ok |-> FALSE, value |-> JNone]
        ELSE [ok |-> FALSE, value |-> JNone]

(***************************************************************************)
(* Items of a Payload::Text array (serde_json::Value): a JSON string, or   *)
(* any other JSON value (value.as_str() is None).                          *)
(***************************************************************************)
JString(s) == [kind |-> "String", s |-> s]
JOther     == [kind |-> "Other", s |-> <<>>]

as_str(value) == IF value.kind = "String" THEN Some(value.s) ELSE None

(***************************************************************************)
(* What the onFts-client callback prints (main.rs:97-142), one record per  *)
(* println!.                                                               *)
(***************************************************************************)
Report(kind, json, text, len) ==
    [kind |-> kind, json |-> json, text |-> text, len |-> len]

LiveBusData(json)   == Report("LiveBusData", json, <<>>, 0)      \* main.rs:109-113
RawData(text)       == Report("RawData", JNone, text, 0)         \* main.rs:117-118
FailedToDecode(enc) == Report("FailedToDecode", JNone, enc, 0)   \* main.rs:123
NonStringData       == Report("NonString", JNone, <<>>, 0)       \* main.rs:127-131
BinaryData(len)     == Report("Binary", JNone, <<>>, len)        \* main.rs:136

\* main.rs:103-132, the body of `for value in values`.
HandleValue(value) ==
    LET encoded_str == as_str(value)
    IN  IF encoded_str.some THEN
            LET decoded == decode_bus_data(encoded_str.text)
            IN  IF decoded.some THEN
                    LET json_data == ParseJson(decoded.text)
                    IN  IF json_data.ok THEN LiveBusData(json_data.value)
                        ELSE RawData(decoded.text)
                ELSE FailedToDecode(encoded_str.text)
        ELSE NonStringData

\* Variant: the loop is left at the first item that fails to decode.
RECURSIVE HandleValues_StopAtFailure(_)
HandleValues_StopAtFailure(values) ==
    IF values = <<>> THEN <<>>
    ELSE LET r == HandleValue(Head(values))
         IN  IF r.kind = "FailedToDecode" THEN <<r>>
             ELSE <<r>> \o HandleValues_StopAtFailure(Tail(values))

\* Variant: the items are handled last to first.
RECURSIVE HandleValues_Reversed(_)
HandleValues_Reversed(values) ==
    IF values = <<>> THEN <<>>
    ELSE HandleValues_Reversed(Tail(values)) \o <<HandleValue(Head(values))>>

\* Variant: an item that is no string is skipped without a line.
RECURSIVE HandleValues_SkipNonString(_)
HandleValues_SkipNonString(values) ==
    IF values = <<>> THEN <<>>
    ELSE (IF Head(values).kind = "String" THEN <<HandleValue(Head(values))>> ELSE <<>>)
         \o HandleValues_SkipNonString(Tail(values))

\* main.rs:101, `for value in values`: every item, in array order.
RECURSIVE HandleValues(_)
HandleValues(values) ==
    IF values = <<>> THEN <<>>
    ELSE <<HandleValue(Head(values))>> \o HandleValues(Tail(values))

\* rust_socketio::Payload
TextPayload(values) == [kind |-> "Text", values |-> values, bin |-> <<>>]
BinaryPayload(bin)  == [kind |-> "Binary", values |-> <<>>, bin |-> bin]
StringPayload       == [kind |-> "String", values |-> <<>>, bin |-> <<>>]

\* Variant: binary data is put through the decoder like a text item.
HandlePayload_DecodeBinary(payload) ==
    IF payload.kind = "Text" THEN HandleValues(payload.values)
    ELSE IF payload.kind = "Binary" THEN <<HandleValue(JString(payload.bin))>>
    ELSE <<>>

\* main.rs:99-139, `match payload`.
HandlePayload(payload) ==
    IF payload.kind = "Text" THEN HandleValues(payload.values)
    ELSE IF payload.kind = "Binary" THEN <<BinaryData(Len(payload.bin))>>
    ELSE <<>>

(***************************************************************************)
(* Session extraction  (main.rs:60-80).                                    *)
(* The fetched page is modelled by the `var x = '...'` assignments it      *)
(* holds, in the order of the text: a sequence of statements.  A regex     *)
(* captures at its leftmost match.  sid_regex captures [^']+ (a non-empty  *)
(* value, so `var sid = ''` is no match); prm_regex and route_regex        *)
(* capture [^']* (any value, also the empty one).                          *)
(***************************************************************************)
Stmt(name, val) == [name |-> name, val |-> val]

NoAssign  == [present |-> FALSE, val |-> ""]
Assign(v) == [present |-> TRUE, val |-> v]

\* The page with at most one assignment per field, in the order sid, prm, no_route.
Page(sid, prm, no_route) ==
    (IF sid.present THEN <<Stmt("sid", sid.val)>> ELSE <<>>)
    \o (IF prm.present THEN <<Stmt("prm", prm.val)>> ELSE <<>>)
    \o (IF no_route.present THEN <<Stmt("no_route", no_route.val)>> ELSE <<>>)

NoMatch    == [found |-> FALSE, val |-> ""]
Matched(v) == [found |-> TRUE, val |-> v]

\* Regex::captures(&html).and_then(|c| c.get(1)) for `var\s+<name>\s*=\s*'(..)'`;
\* plus says whether the group is [^']+ rather than [^']*.
RECURSIVE captures(_, _, _)
captures(html, name, plus) ==
    IF html = <<>> THEN NoMatch
    ELSE IF Head(html).name = name /\ (plus => Head(html).val # "")
         THEN Matched(Head(html).val)
         ELSE captures(Tail(html), name, plus)

\* Variant: the sid pattern written with [^']* like the other two.
sid_regex_AnyValue(html) == captures(html, "sid", FALSE)

sid_regex(html) == captures(html, "sid", TRUE)            \* main.rs:60, 64-66

prm_regex(html) == captures(html, "prm", FALSE)           \* main.rs:61, 70-72

route_regex(html) == captures(html, "no_route", FALSE)    \* main.rs:62, 76-78

unwrap_or_else(m, default) == IF m.found THEN m.val ELSE default

Session(sid, prm, no_route) == [sid |-> sid, prm |-> prm, no_route |-> no_route]

\* Variant: one parse of the three fields, all defaults unless all are found.
Extract_AllOrNothing(html) ==
    IF sid_regex(html).found /\ prm_regex(html).found /\ route_regex(html).found
    THEN Session(sid_regex(html).val, prm_regex(html).val, route_regex(html).val)
    ELSE Session("", "rapidkl", "300")

Extract(html) ==        \* main.rs:64-80
    Session(unwrap_or_else(sid_regex(html), ""),
            unwrap_or_else(prm_regex(html), "rapidkl"),
            unwrap_or_else(route_regex(html), "300"))

\* The value of a binding that has not been made yet.
Unbound == Session("", "", "")
NoPage  == Page(NoAssign, NoAssign, NoAssign)

(***************************************************************************)
(* The onFts-reload payload: json!({sid, uid: "", provider, route}).       *)
(***************************************************************************)
ReloadJson(sid, prm, no_route) ==
    [sid |-> sid, uid |-> "", provider |-> prm, route |-> no_route]

HandshakePayload(c) == ReloadJson(c.sid, c.prm, c.no_route)   \* main.rs:162-167

\* Variant: the loop asks for the route of the URL instead of the extracted one.
KeepAlivePayload_FixedRoute(s) == ReloadJson(s.sid, s.prm, "300")

KeepAlivePayload(s) == ReloadJson(s.sid, s.prm, s.no_route)   \* main.rs:187-192

(***************************************************************************)
(* Inputs of a run.                                                        *)
(***************************************************************************)
Pages ==
    {Page(sid, prm, no_route) :
        sid      \in {NoAssign, Assign(""), Assign("abc123")},
        prm      \in {NoAssign, Assign(""), Assign("rapidpg")},
        no_route \in {NoAssign, Assign(""), Assign("402")}}

\* Pages with up to MaxStmts assignments in any order, with repeated and
\* unrelated ones.
Stmts ==
    {Stmt("sid", v) : v \in {"", "abc123", "zz9"}}
    \cup {Stmt("prm", v) : v \in {"", "rapidpg"}}
    \cup {Stmt("no_route", v) : v \in {"", "402"}}
    \cup {Stmt("uid", "x")}

AllPages == SeqsUpTo(Stmts, MaxStmts)

TextChars == {49, 91, 93, 32, 120}     \* '1'  '['  ']'  ' '  'x'

Texts == SeqsUpTo(TextChars, MaxTextLen)

Encode(text) == Base64Encode(Gzip(text))   \* what the feed sends for text

GoodJsonItem == JString(Encode(<<91, 49, 93>>))               \* "[1]"
GoodRawItem  == JString(Encode(<<120>>))                       \* "x"
BadB64Item   == JString(<<33, 33>>)                            \* "!!"
BadGzipItem  == JString(Base64Encode(<<120, 49, 93>>))         \* base64("x1]")

LivePayloads ==
    {TextPayload(<<GoodJsonItem>>),
     TextPayload(<<BadB64Item, GoodRawItem>>),
     TextPayload(<<BadGzipItem, JOther, GoodJsonItem>>),
     BinaryPayload(GoodJsonItem.s),     \* bytes that would decode, sent as binary
     StringPayload}

\* Inputs of the decoder: what the feed sends, base64 of bytes that are no
\* gzip member, and strings over 'A' 'B' '=' '!' (most of them no base64).
NotGzip ==
    Texts
    \cup {<<30, 139, 8, 1, 120, 120>>,          \* wrong ID1
          <<31, 139, 8, 1, 120, 121>>,          \* wrong check value
          <<31, 139, 8, 2, 120, 120>>,          \* truncated data
          <<31, 139, 8, 1, 255, 255>>,          \* data that is not UTF-8
          <<31, 139, 8>>}                       \* header only

DecodeInputs ==
    {JString(Encode(t)) : t \in Texts}
    \cup {JString(Base64Encode(b)) : b \in NotGzip}
    \cup {JString(s) : s \in SeqsUpTo({65, 66, 61, 33}, 4)}
    \cup {JOther}

DecodePayloads ==
    {TextPayload(<<v>>) : v \in DecodeInputs}
    \cup {TextPayload(<<v, w>>) : v \in DecodeInputs, w \in {BadB64Item, BadGzipItem}}

(***************************************************************************)
(* State.                                                                  *)
(***************************************************************************)
VARIABLES
    pc,           \* where the main task is
    fetch,        \* outcome of the page fetch: "pending", "ok", "send_err", "text_err"
    html,         \* the fetched page
    session,      \* the bindings sid, prm, no_route
    clones,       \* sid_clone, prm_clone, no_route_clone, captured by the connect handler
    conn,         \* state of the connection
    connects,     \* calls of ClientBuilder::connect
    handshakes,   \* runs of the connect handler
    emits,        \* every socket.emit("onFts-reload", ..) attempted, in order
    ticks,        \* expirations of the keep-alive timer
    inbox,        \* the onFts-client payloads delivered, in order
    reports,      \* what the onFts-client callback printed: per event, the lines in order
    errors,       \* "Socket error" lines printed
    emitFails,    \* "Failed to emit" lines printed (connect handler)
    reloadFails,  \* "Failed to emit reload" lines printed (keep-alive loop)
    connectFails  \* "Failed to connect" lines printed

vars == <<pc, fetch, html, session, clones, conn, connects, handshakes, emits,
          ticks, inbox, reports, errors, emitFails, reloadFails, connectFails>>

Init ==
    /\ pc = "fetch"
    /\ fetch = "pending"
    /\ html = NoPage
    /\ session = Unbound
    /\ clones = Unbound
    /\ conn = "Disconnected"
    /\ connects = 0
    /\ handshakes = 0
    /\ emits = <<>>
    /\ ticks = 0
    /\ inbox = <<>>
    /\ reports = <<>>
    /\ errors = 0
    /\ emitFails = 0
    /\ reloadFails = 0
    /\ connectFails = 0

(***************************************************************************)
(* The main task: prasarana_websocket.                                     *)
(***************************************************************************)
\* main.rs:56-57: send().await.unwrap() and text().await.unwrap().
AfterFetch(result) == IF result = "ok" THEN "extract" ELSE "panicked"

FetchPageFrom(pages) ==
    /\ pc = "fetch"
    /\ \E result \in {"ok", "send_err", "text_err"} :
          /\ fetch' = result
          /\ pc' = AfterFetch(result)
          /\ IF result = "ok" THEN html' \in pages ELSE html' = html
    /\ UNCHANGED <<session, clones, conn, connects, handshakes, emits, ticks,
                   inbox, reports, errors, emitFails, reloadFails, connectFails>>

FetchPage == FetchPageFrom(Pages)

\* main.rs:60-85
ExtractFields ==
    /\ pc = "extract"
    /\ session' = Extract(html)
    /\ pc' = "connect"
    /\ UNCHANGED <<fetch, html, clones, conn, connects, handshakes, emits, ticks,
                   inbox, reports, errors, emitFails, reloadFails, connectFails>>

\* main.rs:87-94 and 145-177 up to the await of connect().
StartConnect ==
    /\ pc = "connect"
    /\ clones' = session
    /\ conn' = "Connecting"
    /\ connects' = connects + 1
    /\ pc' = "connecting"
    /\ UNCHANGED <<fetch, html, session, handshakes, emits, ticks,
                   inbox, reports, errors, emitFails, reloadFails, connectFails>>

\* Variant: the loop is entered whatever connect() returned.
AfterConnect_AlwaysLoop(ok) == "sleep"

\* Variant: the loop emits before its first wait.
AfterConnect_EmitFirst(ok) == IF ok THEN "emit" ELSE "done"

\* Variant: a failed connect() is tried again.
AfterConnect_Retry(ok) == IF ok THEN "sleep" ELSE "connect"

\* main.rs:179-203, `match socket`: Ok enters the loop, Err ends the run.
AfterConnect(ok) == IF ok THEN "sleep" ELSE "done"

\* connect() returned Ok(socket)  (main.rs:177, 180-181).
ConnectOk ==
    /\ pc = "connecting"
    /\ conn' = "Connected"
    /\ pc' = AfterConnect(TRUE)
    /\ UNCHANGED <<fetch, html, session, clones, connects, handshakes, emits, ticks,
                   inbox, reports, errors, emitFails, reloadFails, connectFails>>

\* connect() returned Err(e)  (main.rs:177, 200-202).
ConnectErr ==
    /\ pc = "connecting"
    /\ conn' = "Terminated"
    /\ connectFails' = connectFails + 1
    /\ pc' = AfterConnect(FALSE)
    /\ UNCHANGED <<fetch, html, session, clones, connects, handshakes, emits, ticks,
                   inbox, reports, errors, emitFails, reloadFails>>

\* An emit can succeed only on a transport that is up.
EmitOutcomes == IF conn = "Connected" THEN {TRUE, FALSE} ELSE {FALSE}

\* main.rs:185, the timer wait of one loop iteration.
Sleep ==
    /\ pc = "sleep"
    /\ ticks < MaxTicks
    /\ ticks' = ticks + 1
    /\ pc' = "emit"
    /\ UNCHANGED <<fetch, html, session, clones, conn, connects, handshakes, emits,
                   inbox, reports, errors, emitFails, reloadFails, connectFails>>

\* Variant: no break, the loop goes on to the next tick.
AfterReload_NoBreak(ok) == "sleep"

\* Variant: the failed emit is made again at once.
AfterReload_Retry(ok) == IF ok THEN "sleep" ELSE "emit"

\* main.rs:194-197: an Err breaks out of the loop, an Ok iterates.
AfterReload(ok) == IF ok THEN "sleep" ELSE "done"

\* main.rs:187-197, the emit of one loop iteration.
EmitReload ==
    /\ pc = "emit"
    /\ \E ok \in EmitOutcomes :
          /\ emits' = Append(emits, [by |-> "keepalive",
                                     payload |-> KeepAlivePayload(session),
                                     ok |-> ok])
          /\ reloadFails' = IF ok THEN reloadFails ELSE reloadFails + 1
          /\ pc' = AfterReload(ok)
    /\ UNCHANGED <<fetch, html, session, clones, conn, connects, handshakes, ticks,
                   inbox, reports, errors, emitFails, connectFails>>

(***************************************************************************)
(* The socket's polling task, spawned by connect(): it runs the handlers,  *)
(* one at a time, while the main task sleeps or emits.  It stops with the  *)
(* process, when the main task returns.                                    *)
(***************************************************************************)
Alive == pc \in {"sleep", "emit"}

\* main.rs:154-175: the server's connect packet arrived.
OnConnect ==
    /\ Alive
    /\ conn = "Connected"
    /\ handshakes = 0
    /\ handshakes' = handshakes + 1
    /\ \E ok \in EmitOutcomes :
          /\ emits' = Append(emits, [by |-> "handshake",
                                     payload |-> HandshakePayload(clones),
                                     ok |-> ok])
          /\ emitFails' = IF ok THEN emitFails ELSE emitFails + 1
    /\ UNCHANGED <<pc, fetch, html, session, clones, conn, connects, ticks,
                   inbox, reports, errors, reloadFails, connectFails>>

\* Variant: the callback asks for a reload for every event it gets.
OnFtsClient_Emits(payload) ==
    /\ Alive
    /\ conn = "Connected"
    /\ Len(inbox) < MaxInbound
    /\ inbox' = Append(inbox, payload)
    /\ reports' = Append(reports, HandlePayload(payload))
    /\ emits' = Append(emits, [by |-> "keepalive",
                               payload |-> KeepAlivePayload(session),
                               ok |-> TRUE])
    /\ UNCHANGED <<pc, fetch, html, session, clones, conn, connects, handshakes,
                   ticks, errors, emitFails, reloadFails, connectFails>>

\* main.rs:97-142: an onFts-client event arrived.
OnFtsClient(payload) ==
    /\ Alive
    /\ conn = "Connected"
    /\ Len(inbox) < MaxInbound
    /\ inbox' = Append(inbox, payload)
    /\ reports' = Append(reports, HandlePayload(payload))
    /\ UNCHANGED <<pc, fetch, html, session, clones, conn, connects, handshakes, emits,
                   ticks, errors, emitFails, reloadFails, connectFails>>

\* Variant: the error handler gives the connection up.
OnError_TearsDown ==
    /\ Alive
    /\ errors < MaxErrors
    /\ errors' = errors + 1
    /\ conn' = "Terminated"
    /\ UNCHANGED <<pc, fetch, html, session, clones, connects, handshakes, emits,
                   ticks, inbox, reports, emitFails, reloadFails, connectFails>>

\* main.rs:148-153: an error event arrived.
OnError ==
    /\ Alive
    /\ errors < MaxErrors
    /\ errors' = errors + 1
    /\ UNCHANGED <<pc, fetch, html, session, clones, conn, connects, handshakes, emits,
                   ticks, inbox, reports, emitFails, reloadFails, connectFails>>

\* The transport failed or the server closed the connection.
TransportDown ==
    /\ Alive
    /\ conn = "Connected"
    /\ conn' = "Terminated"
    /\ UNCHANGED <<pc, fetch, html, session, clones, connects, handshakes, emits,
                   ticks, inbox, reports, errors, emitFails, reloadFails, connectFails>>

Inbound == \E payload \in LivePayloads : OnFtsClient(payload)

Next ==
    \/ FetchPage
    \/ ExtractFields
    \/ StartConnect
    \/ ConnectOk
    \/ ConnectErr
    \/ Sleep
    \/ EmitReload
    \/ OnConnect
    \/ Inbound
    \/ OnError
    \/ TransportDown

Spec == Init /\ [][Next]_vars

(***************************************************************************)
(* The decoder on its own: one onFts-client event on a connection that     *)
(* has just been established (page of the kiosk as served, connect()       *)
(* returned Ok, nothing emitted or received yet).                          *)
(***************************************************************************)
KioskPage == Page(Assign("abc123"), Assign("rapidkl"), Assign("300"))

InitLive ==
    /\ pc = "sleep"
    /\ fetch = "ok"
    /\ html = KioskPage
    /\ session = Extract(KioskPage)
    /\ clones = Extract(KioskPage)
    /\ conn = "Connected"
    /\ connects = 1
    /\ handshakes = 0
    /\ emits = <<>>
    /\ ticks = 0
    /\ inbox = <<>>
    /\ reports = <<>>
    /\ errors = 0
    /\ emitFails = 0
    /\ reloadFails = 0
    /\ connectFails = 0

(***************************************************************************)
(* The session resolution on its own: the fetch of any page and the        *)
(* extraction.                                                             *)
(***************************************************************************)
FetchAnyPage == FetchPageFrom(AllPages)

SpecResolve == Init /\ [][FetchAnyPage \/ ExtractFields]_vars

DecodeOne == inbox = <<>> /\ \E payload \in DecodePayloads : OnFtsClient(payload)

SpecDecode == InitLive /\ [][DecodeOne]_vars

(***************************************************************************)
(* Properties.                                                             *)
(***************************************************************************)
KeepAliveAt(i) == emits[i].by = "keepalive"
HandshakeAt(i) == emits[i].by = "handshake"

\* C1 (as claimed): after any failed onFts-reload emission, handshake or
\* keep-alive, no further emission is attempted: a failed emission is the last one.
C1_AnyEmitFailureEndsLivePhase ==
    \A i \in DOMAIN emits : ~emits[i].ok => i = Len(emits)

\* C1 (amended): a failed keep-alive emission ends the live phase: the main
\* task has left the loop for good, so the loop neither retries the emit nor
\* emits again.  A failed handshake emission is only reported: the main task
\* is where it would be without it.
C1_KeepAliveFailureEndsLivePhase ==
    /\ \A i \in DOMAIN emits :
          (KeepAliveAt(i) /\ ~emits[i].ok) =>
              /\ pc = "done"
              /\ \A j \in DOMAIN emits : j > i => ~KeepAliveAt(j)
    /\ emitFails = Cardinality({i \in DOMAIN emits : HandshakeAt(i) /\ ~emits[i].ok})
    /\ (pc = "done" /\ connectFails = 0) =>
          \E i \in DOMAIN emits : KeepAliveAt(i) /\ ~emits[i].ok

\* C1 witness: a handshake emission failed, the loop went on to emit, and a
\* keep-alive emission then failed and ended the run.
C1_Witness ==
    /\ Len(emits) >= 3
    /\ HandshakeAt(1) /\ ~emits[1].ok
    /\ KeepAliveAt(2) /\ emits[2].ok
    /\ KeepAliveAt(Len(emits)) /\ ~emits[Len(emits)].ok
    /\ pc = "done"

\* C2: the keep-alive loop stops for good after its first failed emission:
\* at most one keep-alive failure is reported, every failure is reported, and
\* no keep-alive emission follows a failed one.
C2_LoopStopsAfterFirstFailure ==
    /\ reloadFails <= 1
    /\ reloadFails = Cardinality({i \in DOMAIN emits : KeepAliveAt(i) /\ ~emits[i].ok})
    /\ \A i, j \in DOMAIN emits :
          (KeepAliveAt(i) /\ ~emits[i].ok /\ i < j) => ~KeepAliveAt(j)
    /\ reloadFails = 1 => pc = "done"

\* C2 witness: the first tick's emission failed while ticks were still left.
C2_Witness ==
    /\ reloadFails = 1
    /\ ticks = 1
    /\ ticks < MaxTicks
    /\ pc = "done"

\* C3: every onFts-reload payload, of the handshake and of every tick,
\* carries the sid, provider and route that the extraction produced from the
\* fetched page, and uid = ""; the bindings keep the extracted values.
C3_SamePayloadEveryEmission ==
    LET resolved == Extract(html)
    IN  /\ \A i \in DOMAIN emits :
              emits[i].payload = [sid      |-> resolved.sid,
                                  uid      |-> "",
                                  provider |-> resolved.prm,
                                  route    |-> resolved.no_route]
        /\ pc \in {"connect", "connecting", "sleep", "emit", "done"} => session = resolved
        /\ pc \in {"connecting", "sleep", "emit", "done"} => clones = resolved

\* C3 witness: a handshake and two keep-alive emissions were made for a
\* session that differs from the defaults in every field.
C3_Witness ==
    /\ session = Session("abc123", "rapidpg", "402")
    /\ \E i \in DOMAIN emits : HandshakeAt(i)
    /\ Cardinality({i \in DOMAIN emits : KeepAliveAt(i)}) >= 2
    /\ errors > 0
    /\ inbox # <<>>

\* C4 (as claimed): a failed page fetch does not abort the run; the session
\* is the all-defaults one and the run goes on to the connection attempt.
C4_FetchFailureYieldsDefaults ==
    fetch \in {"send_err", "text_err"} =>
        /\ pc # "panicked"
        /\ pc \notin {"fetch", "extract"} => session = Session("", "rapidkl", "300")

\* C5: if connect() fails the failure is reported once and the run ends
\* there: the loop is never entered, no timer tick and no emission happens;
\* and a run that ends before its first tick is one whose connect() failed.
C5_ConnectFailureEndsRun ==
    /\ connectFails > 0 =>
          /\ connectFails = 1
          /\ pc = "done"
          /\ ticks = 0
          /\ emits = <<>>
          /\ conn = "Terminated"
    /\ (pc = "done" /\ ticks = 0) => connectFails = 1

\* C5 witness: connect() failed for a resolved session.
C5_Witness ==
    /\ connectFails = 1
    /\ connects = 1
    /\ session.sid = "abc123"

B64Fails(s)  == ~Base64Decode(s).ok
GzipFails(s) == Base64Decode(s).ok /\ ~Gunzip(Base64Decode(s).bytes).ok

\* What C6 allows as the report of one item.
ItemReported(report, value) ==
    IF value.kind # "String" THEN report = NonStringData
    ELSE IF B64Fails(value.s) \/ GzipFails(value.s) THEN report = FailedToDecode(value.s)
    ELSE report.kind \in {"LiveBusData", "RawData"}

\* C6: handling an onFts-client event reports every item of a text payload,
\* one report per item in array order: an item that fails to decode gets a
\* "Failed to decode" report and the items after it, and the events after
\* it, are still handled; the step changes nothing but the inbound log
\* (connection state, main task, timer and emissions are as before).
C6_DecodeFailureIsLocal ==
    [][inbox' # inbox =>
          LET payload == inbox'[Len(inbox')]
              printed == reports'[Len(reports')]
          IN  /\ Len(inbox') = Len(inbox) + 1
              /\ Len(reports') = Len(inbox')
              /\ SubSeq(reports', 1, Len(reports)) = reports
              /\ payload.kind = "Text" =>
                    /\ Len(printed) = Len(payload.values)
                    /\ \A i \in DOMAIN printed : ItemReported(printed[i], payload.values[i])
              /\ UNCHANGED <<pc, conn, connects, handshakes, emits, ticks, session,
                             clones, errors, emitFails, reloadFails, connectFails>>
    ]_vars

\* C6 witness: an event whose first item failed to decode had its second
\* item delivered, a later event was delivered too, and the loop emitted
\* successfully afterwards on the same connection.
C6_Witness ==
    /\ Len(inbox) = 2
    /\ inbox[1] = TextPayload(<<BadB64Item, GoodRawItem>>)
    /\ reports[1] = <<FailedToDecode(BadB64Item.s), RawData(<<120>>)>>
    /\ inbox[2] = TextPayload(<<BadGzipItem, JOther, GoodJsonItem>>)
    /\ Len(reports[2]) = 3
    /\ reports[2][3].kind = "LiveBusData"
    /\ conn = "Connected"
    /\ pc = "sleep"
    /\ emits # <<>> /\ KeepAliveAt(Len(emits)) /\ emits[Len(emits)].ok

\* The string items delivered so far that have a report: <<event, index>>.
TextItems ==
    UNION {{<<k, i>> : i \in {j \in DOMAIN inbox[k].values :
                                 /\ j \in DOMAIN reports[k]
                                 /\ inbox[k].values[j].kind = "String"}} :
           k \in {e \in DOMAIN inbox : inbox[e].kind = "Text"}}

ItemAt(x)   == inbox[x[1]].values[x[2]].s
ReportAt(x) == reports[x[1]][x[2]]

C8_RoundTrip ==
    \A x \in TextItems : \A t \in Texts :
        ItemAt(x) = Base64Encode(Gzip(t)) =>
            ReportAt(x) = IF ParseJson(t).ok
                          THEN [kind |-> "LiveBusData", json |-> ParseJson(t).value,
                                text |-> <<>>, len |-> 0]
                          ELSE [kind |-> "RawData", json |-> JNone, text |-> t, len |-> 0]

\* C8 witness: the event carried base64(gzip("[ ]")) and the empty array
\* was reported as live bus data.
C8_Witness ==
    /\ Len(inbox) = 1
    /\ Len(reports) = 1
    /\ inbox[1].values[1] = JString(Encode(<<91, 32, 93>>))
    /\ reports[1][1] = LiveBusData(JArr(<<>>))

\* C9 (as claimed): the handshake is emitted at most once and before every
\* keep-alive emission: each keep-alive emission has a handshake emission
\* before it.
C9_HandshakeFirst ==
    /\ Cardinality({i \in DOMAIN emits : HandshakeAt(i)}) <= 1
    /\ \A i \in DOMAIN emits :
          KeepAliveAt(i) => \E j \in 1..(i - 1) : HandshakeAt(j)

Rank(c) ==
    CASE c = "Disconnected" -> 0
      [] c = "Connecting"   -> 1
      [] c = "Connected"    -> 2
      [] c = "Terminated"   -> 3

\* C10: the connection state never moves backwards in the order
\* Disconnected, Connecting, Connected, Terminated; Terminated is never
\* left; connect() is called at most once in a run.
C10_ForwardOnly ==
    [][/\ Rank(conn) <= Rank(conn')
       /\ conn = "Terminated" => conn' = "Terminated"
       /\ connects' <= 1
       /\ conn' \in {"Connected", "Terminated"} => connects' = 1
    ]_vars

\* C10 witness: the transport went down after a successful connect and the
\* loop has emitted since, on the one connection ever made.
C10_Witness ==
    /\ conn = "Terminated"
    /\ connects = 1
    /\ connectFails = 0
    /\ \E i \in DOMAIN emits : KeepAliveAt(i) /\ ~emits[i].ok
    /\ pc = "done"

KeepAliveCount == Cardinality({i \in DOMAIN emits : KeepAliveAt(i)})

\* A step in which the loop attempted an emission.
LoopEmitted ==
    /\ Len(emits') = Len(emits) + 1
    /\ emits'[Len(emits')].by = "keepalive"

\* C11: every expiry of the keep-alive timer is followed by exactly one
\* emission: the loop has emitted once per completed tick, and before its
\* first wait is over it has emitted nothing.
C11_OneEmitPerTick ==
    /\ KeepAliveCount = IF pc = "emit" THEN ticks - 1 ELSE ticks
    /\ pc = "emit" => ticks >= 1
    /\ ticks = 0 => KeepAliveCount = 0

\* C11 witness: two ticks on a live connection, two successful emissions.
C11_Witness ==
    /\ ticks = 2
    /\ pc = "sleep"
    /\ conn = "Connected"
    /\ KeepAliveCount = 2
    /\ reloadFails = 0
    /\ \A i \in DOMAIN emits : emits[i].ok

\* C12 (as claimed): the loop attempts an emission only while the
\* connection is Connected.
C12_LoopOnlyWhileConnected ==
    [][LoopEmitted => conn = "Connected"]_vars

\* C12 (amended): the loop is entered only after connect() succeeded, so it
\* never emits while Disconnected or Connecting; it does not look at the
\* connection state, so once the transport is Terminated it still attempts
\* an emission at its next tick, and that emission fails and ends the loop.
C12_LoopProbesTerminated ==
    [][LoopEmitted =>
          /\ conn \in {"Connected", "Terminated"}
          /\ connectFails = 0
          /\ conn = "Terminated" => (~emits'[Len(emits')].ok /\ pc' = "done")
    ]_vars

\* C12 witness: after an error event and the loss of the transport the loop
\* made its second emission, which failed and ended the run.
C12_Witness ==
    /\ conn = "Terminated"
    /\ errors > 0
    /\ ticks = 2
    /\ KeepAliveCount = 2
    /\ \E i \in DOMAIN emits : KeepAliveAt(i) /\ emits[i].ok
    /\ KeepAliveAt(Len(emits)) /\ ~emits[Len(emits)].ok
    /\ pc = "done"

\* The assignments of a field in a page, and its value as the text gives it.
Assigned(h, name, nonEmpty) ==
    {i \in DOMAIN h : h[i].name = name /\ (nonEmpty => h[i].val # "")}

Leftmost(S) == CHOOSE i \in S : \A j \in S : i <= j

FieldOr(h, name, nonEmpty, default) ==
    IF Assigned(h, name, nonEmpty) = {} THEN default
    ELSE h[Leftmost(Assigned(h, name, nonEmpty))].val

Resolved == pc = "connect"

\* C13: each field is extracted on its own: whatever the page holds for the
\* other two, sid is the value of the leftmost non-empty sid assignment or
\* "" without one, provider the value of the leftmost prm assignment or
\* "rapidkl", route the value of the leftmost no_route assignment or "300".
C13_IndependentExtraction ==
    Resolved =>
        /\ session.sid = FieldOr(html, "sid", TRUE, "")
        /\ session.prm = FieldOr(html, "prm", FALSE, "rapidkl")
        /\ session.no_route = FieldOr(html, "no_route", FALSE, "300")
        /\ (\A i \in DOMAIN html : html[i].name \notin {"sid", "prm", "no_route"})
              => session = Session("", "rapidkl", "300")

\* C13 witness: a page without prm, its route before its sid, and an
\* unrelated assignment first.
C13_Witness ==
    /\ Resolved
    /\ html = <<Stmt("uid", "x"), Stmt("no_route", "402"), Stmt("sid", "zz9")>>
    /\ session = Session("zz9", "rapidkl", "402")

\* C14 (as claimed): every inbound shape is reported: an event whose payload
\* is neither text nor binary leaves a line, and so does every item of a
\* text payload that is no string.
C14_EveryShapeReported ==
    \A k \in DOMAIN inbox :
        /\ k \in DOMAIN reports
        /\ inbox[k].kind \notin {"Text", "Binary"} => reports[k] # <<>>
        /\ inbox[k].kind = "Text" =>
              \A i \in DOMAIN inbox[k].values :
                  inbox[k].values[i].kind # "String" =>
                      (i \in DOMAIN reports[k] /\ reports[k][i].kind = "NonString")

\* C15: for a binary payload exactly one line is printed and it holds the
\* number of bytes and nothing of their content, also when the bytes would
\* decode.
C15_BinaryLengthOnly ==
    \A k \in DOMAIN inbox :
        inbox[k].kind = "Binary" =>
            /\ k \in DOMAIN reports
            /\ reports[k] = <<[kind |-> "Binary", json |-> JNone, text |-> <<>>,
                               len |-> Len(inbox[k].bin)]>>

\* C15 witness: twelve bytes that are base64(gzip("[1]")) came as binary
\* data, after a text event, and only their number was reported.
C15_Witness ==
    /\ Len(inbox) = 2
    /\ inbox[1] = TextPayload(<<GoodJsonItem>>)
    /\ inbox[2] = BinaryPayload(Encode(<<91, 49, 93>>))
    /\ reports[2][1].len = 12
    /\ reports[2][1].kind = "Binary"

\* C16: the lines of an event are appended after those of all earlier
\* events, which stay as they were, and within the event the i-th line is
\* the one for the i-th item of the array.
C16_DeliveryOrder ==
    [][inbox' # inbox =>
          LET k == Len(inbox')
          IN  /\ SubSeq(inbox', 1, k - 1) = inbox
              /\ Len(reports') = k
              /\ SubSeq(reports', 1, k - 1) = reports
              /\ inbox'[k].kind = "Text" =>
                    reports'[k] = [i \in 1..Len(inbox'[k].values) |->
                                      HandleValue(inbox'[k].values[i])]
    ]_vars

\* C16 witness: a three-item event and then a two-item event, five
\* different lines in the order of delivery.
C16_Witness ==
    /\ Len(inbox) = 2
    /\ inbox[1] = TextPayload(<<BadGzipItem, JOther, GoodJsonItem>>)
    /\ inbox[2] = TextPayload(<<BadB64Item, GoodRawItem>>)
    /\ reports = << <<FailedToDecode(BadGzipItem.s), NonStringData,
                      LiveBusData(JArr(<<JNum(1)>>))>>,
                    <<FailedToDecode(BadB64Item.s), RawData(<<120>>)>> >>

\* C17: handling an error event prints one "Socket error" line and leaves
\* everything else as it was: connection, session, main task, timer and
\* emissions.
C17_ErrorOnlyReported ==
    [][errors' # errors =>
          /\ errors' = errors + 1
          /\ UNCHANGED <<pc, fetch, html, session, clones, conn, connects, handshakes,
                         emits, ticks, inbox, reports, emitFails, reloadFails,
                         connectFails>>
    ]_vars

\* C17 witness: an error event was handled and the loop has completed both
\* ticks with successful emissions on the connection, still Connected.
C17_Witness ==
    /\ errors = 1
    /\ conn = "Connected"
    /\ pc = "sleep"
    /\ ticks = 2
    /\ KeepAliveCount = 2
    /\ emits[Len(emits)].ok
    /\ session = Session("abc123", "rapidpg", "402")

RECURSIVE ItemsDelivered(_)
ItemsDelivered(events) ==
    IF events = <<>> THEN 0
    ELSE (IF Head(events).kind = "Text" THEN Len(Head(events).values) ELSE 0)
         + ItemsDelivered(Tail(events))

RECURSIVE LinesForText(_, _)
LinesForText(events, printed) ==
    IF events = <<>> \/ printed = <<>> THEN 0
    ELSE (IF Head(events).kind = "Text" THEN Len(Head(printed)) ELSE 0)
         + LinesForText(Tail(events), Tail(printed))

\* C18: every item of a text payload gets exactly one line, of one of the
\* four kinds; the lines printed for text events are as many as the items
\* delivered.
C18_OneReportPerItem ==
    /\ Len(reports) = Len(inbox)
    /\ \A k \in DOMAIN inbox :
          inbox[k].kind = "Text" =>
              /\ Len(reports[k]) = Len(inbox[k].values)
              /\ \A i \in DOMAIN reports[k] :
                    reports[k][i].kind \in
                        {"LiveBusData", "RawData", "FailedToDecode", "NonString"}
    /\ LinesForText(inbox, reports) = ItemsDelivered(inbox)

\* C18 witness: five items in two events, five lines, all four kinds.
C18_Witness ==
    /\ Len(inbox) = 2
    /\ ItemsDelivered(inbox) = 5
    /\ LinesForText(inbox, reports) = 5
    /\ {reports[k][i].kind : k \in {1}, i \in DOMAIN reports[1]}
          \cup {reports[k][i].kind : k \in {2}, i \in DOMAIN reports[2]}
          = {"LiveBusData", "RawData", "FailedToDecode", "NonString"}

\* C19: a step of the onFts-client callback or of the error handler leaves
\* the emissions and the session as they are; an emission is added only by
\* the connect handler or by the loop at its emit, one at a time.
C19_OnlyTwoEmitters ==
    [][/\ (inbox' # inbox \/ errors' # errors) => UNCHANGED <<emits, session, clones>>
       /\ emits' # emits =>
             /\ Len(emits') = Len(emits) + 1
             /\ SubSeq(emits', 1, Len(emits)) = emits
             /\ UNCHANGED <<inbox, reports, errors, session, clones>>
             /\ \/ /\ emits'[Len(emits')].by = "handshake"
                   /\ handshakes' = handshakes + 1
                   /\ pc' = pc
                \/ /\ emits'[Len(emits')].by = "keepalive"
                   /\ pc = "emit"
                   /\ handshakes' = handshakes
    ]_vars

\* C19 witness: two inbound events and an error event were handled and only
\* the handshake was emitted.
C19_Witness ==
    /\ Len(inbox) = 2
    /\ errors = 1
    /\ Len(emits) = 1
    /\ HandshakeAt(1)
    /\ ticks = 0

\* C20: an empty assignment counts for prm and no_route and not for sid: a
\* page whose leftmost prm (no_route) assignment is empty gives the empty
\* provider (route), not the default; an empty sid assignment is passed
\* over, sid being the value of a later non-empty one or else the default "".
C20_EmptyAssignments ==
    Resolved =>
        /\ (Assigned(html, "prm", FALSE) # {}
              /\ html[Leftmost(Assigned(html, "prm", FALSE))].val = "")
              => (session.prm = "" /\ session.prm # "rapidkl")
        /\ (Assigned(html, "no_route", FALSE) # {}
              /\ html[Leftmost(Assigned(html, "no_route", FALSE))].val = "")
              => (session.no_route = "" /\ session.no_route # "300")
        /\ (Assigned(html, "sid", FALSE) # {}
              /\ html[Leftmost(Assigned(html, "sid", FALSE))].val = "")
              => \/ /\ Assigned(html, "sid", TRUE) = {}
                    /\ session.sid = ""
                 \/ /\ Assigned(html, "sid", TRUE) # {}
                    /\ session.sid = html[Leftmost(Assigned(html, "sid", TRUE))].val
                    /\ session.sid # ""

\* C20 witness: an empty sid and an empty prm assignment, each followed by
\* a non-empty one: the later sid and the empty prm were taken.
C20_Witness ==
    /\ Resolved
    /\ html = <<Stmt("sid", ""), Stmt("prm", ""), Stmt("sid", "abc123")>>
    /\ session = Session("abc123", "", "300")

=============================================================================
